---- MODULE Spec2Model ----
(***************************************************************************)
(* Model of upload_to_dropbox.py: one working directory, one remote        *)
(* Dropbox object "/Bots_V3_splunkapps.tgz", and a sequence of runs of     *)
(* main().  Each run resolves the newest artifact, downloads the master    *)
(* archive, rebuilds it with the artifact merged in, and uploads it.       *)
(***************************************************************************)
EXTENDS Integers, Sequences, FiniteSets, TLC

\* ------------------------------------------------------------- bounds
\* Number of runs of main() in one behaviour.
MaxRuns == 2
\* Longest master archive the remote holds before the first run.
MaxEntries == 2

\* ---------------------------------------------------------- constants
\* upload_file: CHUNK_SIZE = 8 * 1024 * 1024
CHUNK_SIZE == 8 * 1024 * 1024
\* tar layout written by tarfile.open(..., 'w:'): 512-byte blocks, two
\* zero blocks at the end, padded to a 10240-byte record.
BLOCKSIZE == 512
RECORDSIZE == 10240
\* Permission bits of an artifact file, 0o644.
FileMode == 6 * 64 + 4 * 8 + 4

\* -------------------------------------------------------------- names
\* A file name is its stem and its suffix; the code only ever inspects
\* the suffix (endswith(".tar.gz")) and replaces it.
Name(stem, ext) == [stem |-> stem, ext |-> ext]

MASTER_NAME == Name("Bots_V3_splunkapps", ".tgz")

\* tempfile.mkstemp(suffix=".tar"): a file of the temporary directory.
TMP_PATH == Name("tmp", ".tar")

\* The artifacts a build drops into the working directory.
DropNames == {Name("a", ".tar.gz"), Name("b", ".tgz"), Name("Bots_V3_splunkapps", ".tar.gz")}

\* Every file of the working directory that glob("*.tar.gz") or
\* glob("*.tgz") can return.
CwdNames == DropNames \cup {Name("a", ".tgz"), MASTER_NAME}

Paths == CwdNames \cup {TMP_PATH}

\* Names of the entries of the master archive the remote holds at first.
EntryNames == {Name("a", ".tgz"), Name("b", ".tgz")}

\* Artifact contents: 1 is a 100-byte artifact, 2 a 12 MiB one.
Contents == {1, 2}

ContentSize(c) == IF c = 1 THEN 100 ELSE 12 * 1024 * 1024

\* ------------------------------------------------------ archive values
\* A member of a tar archive: TarInfo name, mode, mtime and the bytes.
Entry(n, c, mode, mtime) == [name |-> n, content |-> c, mode |-> mode, mtime |-> mtime]

\* An object (the bytes of a file or of the remote object).
\*   kind "none"    no such file / remote NotFound
\*   kind "blob"    an artifact (a gzip-compressed tar), identified by id
\*   kind "tar"     an uncompressed tar holding `entries`
\*   kind "corrupt" bytes tarfile cannot read
\*   kind "partial" a tar whose writing was interrupted
\*   kind "empty"   a file of length zero (what mkstemp creates)
Obj(kind, id, entries) == [kind |-> kind, id |-> id, entries |-> entries]

NoObj == Obj("none", 0, <<>>)

\* A file: its bytes and the stat fields the code reads.
File(obj, mode, mtime) == [obj |-> obj, mode |-> mode, mtime |-> mtime]

NoFile == File(NoObj, 0, 0)

RoundUp(n, k) == ((n + k - 1) \div k) * k

RECURSIVE MembersSize(_)
MembersSize(entries) ==
    IF entries = <<>> THEN 0
    ELSE BLOCKSIZE + RoundUp(ContentSize(Head(entries).content), BLOCKSIZE)
         + MembersSize(Tail(entries))

\* os.path.getsize of a tar written by tarfile in 'w:' mode.
TarSize(entries) == RoundUp(MembersSize(entries) + 2 * BLOCKSIZE, RECORDSIZE)

ObjSize(obj) ==
    CASE obj.kind = "tar" -> TarSize(obj.entries)
      [] obj.kind = "blob" -> ContentSize(obj.id)
      [] OTHER -> 0

\* Sequences over S of length at most n.
SeqsUpTo(S, n) == UNION {[1..k -> S] : k \in 0..n}

\* The master archives the remote may hold before the first run: absent,
\* unreadable, or any tar of at most MaxEntries members (a tar file may
\* hold several members of one name).
InitialRemote ==
    {NoObj, Obj("corrupt", 0, <<>>)}
    \cup {Obj("tar", 0, es) :
            es \in SeqsUpTo({Entry(n, c, FileMode, 1) : n \in EntryNames, c \in Contents},
                            MaxEntries)}

VARIABLES
    fs,             \* Paths -> File: the working directory and the temporary file
    remote,         \* the object at "/Bots_V3_splunkapps.tgz"
    clock,          \* time.time(), advanced by every artifact drop
    runs,           \* runs of main() started so far
    pc,             \* position of the current run
    result,         \* main()'s return value: -1 while none, 0 or 1
    archive_file,   \* the path find_latest_archive returned, then the converted one
    fetched,        \* download_master_file: "none", "ok" or "notfound"
    mergeIn,        \* what update_master_file read: the existing master and the artifact
    prevMerge,      \* the last merge an earlier run completed
    file_size,      \* upload_file: os.path.getsize(local_path)
    fpos,           \* upload_file: f.tell()
    cursor,         \* upload_file: UploadSessionCursor offset, -1 before it exists
    calls,          \* the Dropbox upload calls of the current run
    success,        \* upload_file's return value
    remoteAtStart,  \* the remote object when the current run started
    extFailed,      \* whether an external operation failed in the current run
    failure,        \* the stage whose exception ended the current run, or "none"
    stages,         \* the stages the current run has started, in order
    remoteCalls,    \* the probe and download calls the current run has made
    fsAtStart,      \* the files when the current run started
    peerPc,         \* position of a run of main() on another machine
    peerLocal,      \* that run's local master
    peerResult,     \* its return value: -1 while none, 0 or 1
    peerFailed,     \* whether an external operation failed in it
    overlap         \* both runs fetched the master before either uploaded

vars == <<fs, remote, clock, runs, pc, result, archive_file, fetched, mergeIn,
          prevMerge, file_size, fpos, cursor, calls, success, remoteAtStart, extFailed,
          failure, stages, remoteCalls, fsAtStart,
          peerPc, peerLocal, peerResult, peerFailed, overlap>>

NoMerge == [kind |-> "none", existing |-> <<>>, name |-> MASTER_NAME,
            file |-> NoFile, out |-> <<>>]

Init ==
    /\ fs = [p \in Paths |-> NoFile]
    /\ remote \in InitialRemote
    /\ clock = 0
    /\ runs = 0
    /\ pc = "idle"
    /\ result = -1
    /\ archive_file = MASTER_NAME
    /\ fetched = "none"
    /\ mergeIn = NoMerge
    /\ prevMerge = NoMerge
    /\ file_size = 0
    /\ fpos = 0
    /\ cursor = -1
    /\ calls = <<>>
    /\ success = FALSE
    /\ remoteAtStart = remote
    /\ extFailed = FALSE
    /\ failure = "none"
    /\ stages = <<>>
    /\ remoteCalls = <<>>
    /\ fsAtStart = fs
    /\ peerPc = "idle"
    /\ peerLocal = NoObj
    /\ peerResult = -1
    /\ peerFailed = FALSE
    /\ overlap = FALSE

Exists(p) == fs[p].obj.kind # "none"

upload_vars == <<file_size, fpos, cursor, calls, success>>

hist_vars == <<failure, stages, remoteCalls, fsAtStart>>

peer_vars == <<peerPc, peerLocal, peerResult, peerFailed>>

\* The states of the other run between its fetch and its upload.
PeerHoldsFetched == peerPc \in {"merge", "upload"}

\* main, lines 200-203: any exception ends the run with return 1.
Raise ==
    /\ pc' = "ended"
    /\ result' = 1

\* ------------------------------------------------------- environment
\* A build leaves a new artifact in the working directory between runs.
DropArtifact ==
    /\ UNCHANGED <<peer_vars, overlap>>
    /\ UNCHANGED hist_vars
    /\ pc \in {"idle", "ended"}
    /\ clock <= runs
    /\ runs < MaxRuns
    /\ \E n \in DropNames, c \in Contents :
          fs' = [fs EXCEPT ![n] = File(Obj("blob", c, <<>>), FileMode, clock + 1)]
    /\ clock' = clock + 1
    /\ UNCHANGED <<remote, runs, pc, result, archive_file, fetched, mergeIn, prevMerge,
                   file_size, fpos, cursor, calls, success, remoteAtStart, extFailed>>

\* --------------------------------------------------------------- main
\* main, lines 184-189, with DropboxUploader.__init__ and _verify_token:
\* without a token ValueError is raised before any call; otherwise the
\* identity probe is made and either answers or raises.
StartRun ==
    /\ UNCHANGED <<peer_vars, overlap>>
    /\ pc \in {"idle", "ended"}
    /\ runs < MaxRuns
    /\ runs' = runs + 1
    /\ remoteAtStart' = remote
    /\ prevMerge' = IF mergeIn.kind \in {"existing", "absent"} /\ pc = "ended"
                       /\ mergeIn.out # <<>>
                    THEN mergeIn ELSE prevMerge
    /\ mergeIn' = NoMerge
    /\ fetched' = "none"
    /\ archive_file' = MASTER_NAME
    /\ file_size' = 0
    /\ fpos' = 0
    /\ cursor' = -1
    /\ calls' = <<>>
    /\ success' = FALSE
    /\ stages' = <<>>
    /\ fsAtStart' = fs
    /\ \E outcome \in {"ok", "auth", "notoken"} :
          /\ extFailed' = (outcome # "ok")
          /\ remoteCalls' = IF outcome = "notoken" THEN <<>> ELSE <<"probe">>
          /\ failure' = IF outcome = "ok" THEN "none" ELSE "init"
          /\ IF outcome = "ok" THEN pc' = "find" /\ result' = -1
                              ELSE Raise
    /\ UNCHANGED <<fs, remote, clock>>

\* find_latest_archive, line 44: glob results minus the master itself.
Candidates == {p \in CwdNames : Exists(p) /\ p.ext \in {".tar.gz", ".tgz"} /\ p # MASTER_NAME}

\* find_latest_archive, line 47: max(files, key=os.path.getmtime).
Latest == {p \in Candidates : \A q \in Candidates : fs[q].mtime <= fs[p].mtime}

FindLatestArchive ==
    /\ UNCHANGED <<peer_vars, overlap>>
    /\ stages' = Append(stages, "resolve")
    /\ failure' = IF Candidates = {} THEN "source" ELSE failure
    /\ UNCHANGED <<remoteCalls, fsAtStart>>
    /\ pc = "find"
    /\ IF Candidates = {}
       THEN Raise /\ UNCHANGED archive_file
       ELSE /\ \E p \in Latest : archive_file' = p
            /\ pc' = "download"
            /\ UNCHANGED result
    /\ UNCHANGED <<fs, remote, clock, runs, fetched, mergeIn, prevMerge, remoteAtStart,
                   extFailed>>
    /\ UNCHANGED upload_vars

\* download_master_file with the local file opened for writing before
\* the download is requested: a failed download leaves it truncated.
TruncatedByOpen(f) == File(Obj("empty", 0, <<>>), FileMode, 0)

\* download_master_file, lines 54-55: files_download raises before
\* open(MASTER_NAME, "wb") runs, so a failed download leaves the local
\* file as it was.
LocalAfterFailedDownload(f) == f

\* download_master_file: NotFound returns False and writes nothing; any
\* other error is raised; a download overwrites the local master in
\* place, and a failing write leaves it partial.
DownloadMasterFile ==
    /\ UNCHANGED peer_vars
    /\ overlap' = (overlap \/ PeerHoldsFetched)
    /\ pc = "download"
    /\ stages' = Append(stages, "fetch")
    /\ remoteCalls' = Append(remoteCalls, "download")
    /\ UNCHANGED fsAtStart
    /\ IF remote.kind = "none"
       THEN /\ fetched' = "notfound"
            /\ fs' = [fs EXCEPT ![MASTER_NAME] = LocalAfterFailedDownload(@)]
            /\ pc' = "convert"
            /\ UNCHANGED <<result, extFailed, failure>>
       ELSE \E outcome \in {"ok", "api", "write"} :
              CASE outcome = "ok" ->
                   /\ fs' = [fs EXCEPT ![MASTER_NAME] = File(remote, FileMode, clock)]
                   /\ fetched' = "ok"
                   /\ pc' = "convert"
                   /\ UNCHANGED <<result, extFailed, failure>>
                [] outcome = "api" ->
                   /\ Raise
                   /\ extFailed' = TRUE
                   /\ failure' = "fetch"
                   /\ fs' = [fs EXCEPT ![MASTER_NAME] = LocalAfterFailedDownload(@)]
                   /\ UNCHANGED fetched
                [] outcome = "write" ->
                   /\ Raise
                   /\ extFailed' = TRUE
                   /\ failure' = "fetch_write"
                   /\ fs' = [fs EXCEPT ![MASTER_NAME] =
                                File(Obj("partial", 0, <<>>), FileMode, clock)]
                   /\ UNCHANGED fetched
    /\ UNCHANGED <<remote, clock, runs, archive_file, mergeIn, prevMerge, remoteAtStart>>
    /\ UNCHANGED upload_vars

\* _make_arcname: the base name with ".tar.gz" replaced by ".tgz".
make_arcname(p) == IF p.ext = ".tar.gz" THEN Name(p.stem, ".tgz") ELSE p

\* _convert_to_tgz_if_needed: the path the file ends up at.
convert_to_tgz_if_needed(p) == IF p.ext = ".tar.gz" THEN Name(p.stem, ".tgz") ELSE p

\* update_master_file, lines 92-94: os.rename moves the artifact onto the
\* new name, replacing whatever file is there.
ConvertToTgz ==
    /\ UNCHANGED <<peer_vars, overlap>>
    /\ stages' = Append(stages, "merge")
    /\ UNCHANGED <<failure, remoteCalls, fsAtStart>>
    /\ pc = "convert"
    /\ LET new_name == convert_to_tgz_if_needed(archive_file) IN
         /\ archive_file' = new_name
         /\ fs' = IF new_name = archive_file THEN fs
                  ELSE [fs EXCEPT ![new_name] = fs[archive_file], ![archive_file] = NoFile]
    /\ pc' = "branch"
    /\ UNCHANGED <<remote, clock, runs, result, fetched, mergeIn, prevMerge, remoteAtStart,
                   extFailed>>
    /\ UNCHANGED upload_vars

\* update_master_file, line 93, evaluated on the converted path.
arcname == make_arcname(archive_file)

\* update_master_file, line 114 / 130: tar.add(archive_file, arcname=arcname)
\* takes the member's mode and mtime from the artifact file's stat.
NewMember(f, n) == Entry(n, f.obj.id, f.mode, f.mtime)

\* The for loop of lines 106-111 with members copied although they carry
\* the new name (an append without replacement).
RECURSIVE CopyAllMembers(_, _)
CopyAllMembers(members, n) ==
    IF members = <<>> THEN <<>>
    ELSE <<Head(members)>> \o CopyAllMembers(Tail(members), n)

\* update_master_file, lines 106-111: every member of the old tar whose
\* name is not arcname is copied with its own TarInfo, in order.
RECURSIVE CopyMembers(_, _)
CopyMembers(members, n) ==
    IF members = <<>> THEN <<>>
    ELSE IF Head(members).name = n
         THEN CopyMembers(Tail(members), n)
         ELSE <<Head(members)>> \o CopyMembers(Tail(members), n)

\* update_master_file, lines 100-114: the members of the rebuilt tar.
RebuiltMembers(old, f, n) == CopyMembers(old, n) \o <<NewMember(f, n)>>

\* update_master_file, lines 96-98: the existing-master branch creates an
\* empty temporary file; otherwise the master is created in place.
MergeBranch ==
    /\ UNCHANGED <<peer_vars, overlap>>
    /\ UNCHANGED hist_vars
    /\ pc = "branch"
    /\ IF Exists(MASTER_NAME)
       THEN /\ fs' = [fs EXCEPT ![TMP_PATH] = File(Obj("empty", 0, <<>>), 384, clock)]
            /\ pc' = "rebuild"
       ELSE /\ pc' = "create"
            /\ UNCHANGED fs
    /\ UNCHANGED <<remote, clock, runs, result, archive_file, fetched, mergeIn, prevMerge,
                   remoteAtStart, extFailed>>
    /\ UNCHANGED upload_vars

\* update_master_file, lines 100-114: read the old master, write the
\* rebuilt tar to the temporary file.  An unreadable master raises before
\* anything is written; a write error leaves the temporary file partial.
Rebuild ==
    /\ UNCHANGED <<peer_vars, overlap>>
    /\ UNCHANGED hist_vars
    /\ pc = "rebuild"
    /\ LET old == fs[MASTER_NAME].obj
           art == fs[archive_file]
           members == RebuiltMembers(old.entries, art, arcname) IN
         IF old.kind # "tar"
         THEN /\ pc' = "except"
              /\ UNCHANGED <<fs, mergeIn, extFailed>>
         ELSE \E ok \in BOOLEAN :
                IF ok
                THEN /\ fs' = [fs EXCEPT ![TMP_PATH].obj = Obj("tar", 0, members)]
                     /\ mergeIn' = [kind |-> "existing", existing |-> old.entries,
                                    name |-> arcname, file |-> art, out |-> <<>>]
                     /\ pc' = "replace"
                     /\ UNCHANGED extFailed
                ELSE /\ fs' = [fs EXCEPT ![TMP_PATH].obj = Obj("partial", 0, <<>>)]
                     /\ pc' = "except"
                     /\ extFailed' = TRUE
                     /\ UNCHANGED mergeIn
    /\ UNCHANGED <<remote, clock, runs, result, archive_file, fetched, prevMerge,
                   remoteAtStart>>
    /\ UNCHANGED upload_vars

\* update_master_file, lines 117-119: os.replace(tmp_path, MASTER_NAME),
\* then os.utime.  The temporary file lives in another directory, so the
\* replace can fail (a cross-device link).
Replace ==
    /\ UNCHANGED <<peer_vars, overlap>>
    /\ UNCHANGED hist_vars
    /\ pc = "replace"
    /\ \E ok \in BOOLEAN :
         IF ok
         THEN /\ fs' = [fs EXCEPT ![MASTER_NAME] = File(fs[TMP_PATH].obj, 384, clock),
                                  ![TMP_PATH] = NoFile]
              /\ mergeIn' = [mergeIn EXCEPT !.out = fs[TMP_PATH].obj.entries]
              /\ pc' = "upload"
              /\ UNCHANGED extFailed
         ELSE /\ pc' = "except"
              /\ extFailed' = TRUE
              /\ UNCHANGED <<fs, mergeIn>>
    /\ UNCHANGED <<remote, clock, runs, result, archive_file, fetched, prevMerge,
                   remoteAtStart>>
    /\ UNCHANGED upload_vars

\* update_master_file, lines 121-125: remove the temporary file, re-raise.
MergeExcept ==
    /\ UNCHANGED <<peer_vars, overlap>>
    /\ failure' = "merge"
    /\ UNCHANGED <<stages, remoteCalls, fsAtStart>>
    /\ pc = "except"
    /\ fs' = [fs EXCEPT ![TMP_PATH] = NoFile]
    /\ Raise
    /\ UNCHANGED <<remote, clock, runs, archive_file, fetched, mergeIn, prevMerge,
                   remoteAtStart, extFailed>>
    /\ UNCHANGED upload_vars

\* update_master_file, lines 127-135: no local master, so the tar is
\* written directly under the master's name; an error is re-raised.
CreateNew ==
    /\ UNCHANGED <<peer_vars, overlap>>
    /\ pc = "create"
    /\ LET art == fs[archive_file] IN
         \E ok \in BOOLEAN :
           IF ok
           THEN /\ fs' = [fs EXCEPT ![MASTER_NAME] =
                             File(Obj("tar", 0, <<NewMember(art, arcname)>>), FileMode, clock)]
                /\ mergeIn' = [kind |-> "absent", existing |-> <<>>, name |-> arcname,
                               file |-> art, out |-> <<NewMember(art, arcname)>>]
                /\ pc' = "upload"
                /\ UNCHANGED <<result, extFailed, failure>>
           ELSE /\ fs' = [fs EXCEPT ![MASTER_NAME] =
                             File(Obj("partial", 0, <<>>), FileMode, clock)]
                /\ Raise
                /\ extFailed' = TRUE
                /\ failure' = "merge"
                /\ UNCHANGED mergeIn
    /\ UNCHANGED <<remote, clock, runs, archive_file, fetched, prevMerge, remoteAtStart>>
    /\ UNCHANGED <<stages, remoteCalls, fsAtStart>>
    /\ UNCHANGED upload_vars

\* ------------------------------------------------------------ upload
\* The names bound at module level: the imports of lines 1-9 and the
\* definitions of lines 18-183.
ModuleNames == {"os", "glob", "tarfile", "logging", "tempfile", "sys", "time", "dropbox",
                "ApiError", "AuthError", "MASTER_NAME", "MASTER_PATH", "DropboxUploader",
                "main"}

\* Looking a global name up at run time raises NameError unless it is bound.
NameResolves(n) == n \in ModuleNames

Min(a, b) == IF a <= b THEN a ELSE b

Call(op, len, offset, commit) == [op |-> op, len |-> len, offset |-> offset, commit |-> commit]

\* CommitInfo / files_upload arguments: the destination and the write mode.
NoCommit == [path |-> "", mode |-> ""]
OverwriteCommit == [path |-> "/Bots_V3_splunkapps.tgz", mode |-> "overwrite"]

\* upload_file, lines 143-149: the local master must exist; its size
\* decides the path taken.
UploadOpen ==
    /\ UNCHANGED <<peer_vars, overlap>>
    /\ stages' = Append(stages, "upload")
    /\ failure' = IF ~Exists(MASTER_NAME) THEN "upload" ELSE failure
    /\ UNCHANGED <<remoteCalls, fsAtStart>>
    /\ pc = "upload"
    /\ IF ~Exists(MASTER_NAME)
       THEN Raise /\ UNCHANGED file_size
       ELSE /\ file_size' = ObjSize(fs[MASTER_NAME].obj)
            /\ pc' = "send"
            /\ UNCHANGED result
    /\ UNCHANGED <<fs, remote, clock, runs, archive_file, fetched, mergeIn, prevMerge,
                   fpos, cursor, calls, success, remoteAtStart, extFailed>>

\* The single put with the call made before client_modified is computed.
SinglePutCallFirst == <<"read", "call", "client_modified">>

\* upload_file, lines 151-156: Python evaluates the arguments of
\* files_upload left to right, client_modified=datetime.now(...) among
\* them, and only then makes the call.
SinglePutOrder == <<"read", "client_modified", "call">>

Position(seq, x) == CHOOSE i \in 1..Len(seq) : seq[i] = x

\* upload_file, lines 150-156 and 174-181: at most CHUNK_SIZE bytes.  The
\* call is reached only if no earlier step raised; any exception makes
\* upload_file return False.
UploadSingle ==
    /\ UNCHANGED <<peer_vars, overlap>>
    /\ UNCHANGED hist_vars
    /\ pc = "send"
    /\ file_size <= CHUNK_SIZE
    /\ LET nameOk == NameResolves("datetime") /\ NameResolves("timezone")
           callReached == nameOk \/ Position(SinglePutOrder, "call")
                                      < Position(SinglePutOrder, "client_modified") IN
         /\ fpos' = file_size
         /\ IF callReached
            THEN \E ok \in BOOLEAN :
                   IF ok
                   THEN /\ calls' = Append(calls, Call("put", file_size, 0, OverwriteCommit))
                        /\ remote' = fs[MASTER_NAME].obj
                        /\ success' = nameOk
                        /\ UNCHANGED extFailed
                   ELSE /\ extFailed' = TRUE
                        /\ success' = FALSE
                        /\ UNCHANGED <<calls, remote>>
            ELSE /\ success' = FALSE
                 /\ UNCHANGED <<calls, remote, extFailed>>
    /\ pc' = "check"
    /\ UNCHANGED <<fs, clock, runs, result, archive_file, fetched, mergeIn, prevMerge,
                   file_size, cursor, remoteAtStart>>

\* upload_file, line 158: files_upload_session_start(f.read(CHUNK_SIZE)).
SessionStart ==
    /\ UNCHANGED <<peer_vars, overlap>>
    /\ UNCHANGED hist_vars
    /\ pc = "send"
    /\ file_size > CHUNK_SIZE
    /\ LET n == Min(CHUNK_SIZE, file_size - fpos) IN
         /\ fpos' = fpos + n
         /\ \E ok \in BOOLEAN :
              IF ok
              THEN /\ calls' = Append(calls, Call("start", n, 0, NoCommit))
                   /\ pc' = "cursor"
                   /\ UNCHANGED <<success, extFailed>>
              ELSE /\ extFailed' = TRUE
                   /\ success' = FALSE
                   /\ pc' = "check"
                   /\ UNCHANGED calls
    /\ UNCHANGED <<fs, remote, clock, runs, result, archive_file, fetched, mergeIn,
                   prevMerge, file_size, cursor, remoteAtStart>>

\* upload_file, lines 159-161: UploadSessionCursor(offset=f.tell()).
SessionCursor ==
    /\ UNCHANGED <<peer_vars, overlap>>
    /\ UNCHANGED hist_vars
    /\ pc = "cursor"
    /\ cursor' = fpos
    /\ pc' = "commit"
    /\ UNCHANGED <<fs, remote, clock, runs, result, archive_file, fetched, mergeIn,
                   prevMerge, file_size, fpos, calls, success, remoteAtStart, extFailed>>

\* upload_file, lines 167-173: the calls the while loop makes from file
\* position pos with the cursor at offset cur.
RECURSIVE SessionLoop(_, _, _)
SessionLoop(pos, size, cur) ==
    IF ~(pos < size) THEN <<>>
    ELSE LET bytes_left == size - pos
             n == Min(CHUNK_SIZE, bytes_left) IN
           IF bytes_left <= CHUNK_SIZE
           THEN <<Call("finish", n, cur, OverwriteCommit)>> \o SessionLoop(pos + n, size, cur)
           ELSE <<Call("append", n, cur, NoCommit)>> \o SessionLoop(pos + n, size, pos + n)

RECURSIVE SumLen(_)
SumLen(cs) == IF cs = <<>> THEN 0 ELSE Head(cs).len + SumLen(Tail(cs))

\* upload_file, lines 162-173: CommitInfo(client_modified=datetime.now(...))
\* is built first; then the loop runs until a call raises ApiError or the
\* finish call has been made.
SessionCommit ==
    /\ UNCHANGED <<peer_vars, overlap>>
    /\ UNCHANGED hist_vars
    /\ pc = "commit"
    /\ IF NameResolves("datetime") /\ NameResolves("timezone")
       THEN LET loop == SessionLoop(fpos, file_size, cursor) IN
              \E k \in 0..Len(loop) :
                 /\ calls' = calls \o SubSeq(loop, 1, k)
                 /\ fpos' = fpos + SumLen(SubSeq(loop, 1, Min(k + 1, Len(loop))))
                 /\ cursor' = IF k = 0 \/ loop[k].op = "finish" THEN cursor
                              ELSE loop[k].offset + loop[k].len
                 /\ success' = (k = Len(loop))
                 /\ extFailed' = (extFailed \/ k < Len(loop))
                 /\ remote' = IF k > 0 /\ loop[k].op = "finish"
                              THEN fs[MASTER_NAME].obj ELSE remote
       ELSE /\ success' = FALSE
            /\ UNCHANGED <<calls, fpos, cursor, extFailed, remote>>
    /\ pc' = "check"
    /\ UNCHANGED <<fs, clock, runs, result, archive_file, fetched, mergeIn, prevMerge,
                   file_size, remoteAtStart>>

\* main with the return value of upload_file ignored.
ExitCodeIgnoringUpload(ok) == 0

\* main, lines 194-203: False from upload_file raises RuntimeError, which
\* the except turns into return 1; otherwise return 0.
ExitCode(ok) == IF ok THEN 0 ELSE 1

\* main, lines 194-199: the check of upload_file's return value.
MainCheck ==
    /\ UNCHANGED <<peer_vars, overlap>>
    /\ pc = "check"
    /\ pc' = "ended"
    /\ result' = ExitCode(success)
    /\ failure' = IF success THEN failure ELSE "upload"
    /\ UNCHANGED <<stages, remoteCalls, fsAtStart>>
    /\ UNCHANGED <<fs, remote, clock, runs, archive_file, fetched, mergeIn, prevMerge,
                   remoteAtStart, extFailed>>
    /\ UNCHANGED upload_vars

Next ==
    \/ DropArtifact
    \/ StartRun
    \/ FindLatestArchive
    \/ DownloadMasterFile
    \/ ConvertToTgz
    \/ MergeBranch
    \/ Rebuild
    \/ Replace
    \/ MergeExcept
    \/ CreateNew
    \/ UploadOpen
    \/ UploadSingle
    \/ SessionStart
    \/ SessionCursor
    \/ SessionCommit
    \/ MainCheck

Spec == Init /\ [][Next]_vars

\* --------------------------------------------------- a concurrent run
\* A second run of main(), on another machine, against the same remote
\* path.  Its working directory holds only its artifact p.tgz.
PeerName == Name("p", ".tgz")

PeerArtifact == File(Obj("blob", 1, <<>>), FileMode, 1)

main_vars == <<fs, clock, runs, pc, result, archive_file, fetched, mergeIn, prevMerge,
               file_size, fpos, cursor, calls, success, remoteAtStart, extFailed,
               failure, stages, remoteCalls, fsAtStart>>

PeerRaise ==
    /\ peerPc' = "ended"
    /\ peerResult' = 1

\* main, lines 184-191, in the other run, started while this machine's
\* first run is under way: the probe, then find_latest_archive.
PeerStart ==
    /\ peerPc = "idle"
    /\ runs = 1
    /\ pc \notin {"idle", "ended"}
    /\ \E ok \in BOOLEAN :
          IF ok THEN /\ peerPc' = "download"
                     /\ UNCHANGED <<peerResult, peerFailed>>
                ELSE /\ PeerRaise
                     /\ peerFailed' = TRUE
    /\ UNCHANGED <<peerLocal, overlap, remote>>
    /\ UNCHANGED main_vars

\* download_master_file in the other run.
PeerDownload ==
    /\ peerPc = "download"
    /\ IF remote.kind = "none"
       THEN /\ peerPc' = "merge"
            /\ overlap' = (fetched # "none" /\ calls = <<>>)
            /\ UNCHANGED <<peerLocal, peerResult, peerFailed>>
       ELSE \E ok \in BOOLEAN :
              IF ok THEN /\ peerLocal' = remote
                         /\ peerPc' = "merge"
                         /\ overlap' = (fetched # "none" /\ calls = <<>>)
                         /\ UNCHANGED <<peerResult, peerFailed>>
                    ELSE /\ PeerRaise
                         /\ peerFailed' = TRUE
                         /\ UNCHANGED <<peerLocal, overlap>>
    /\ UNCHANGED remote
    /\ UNCHANGED main_vars

\* update_master_file in the other run: create, rebuild, or fail on an
\* unreadable master.
PeerMerge ==
    /\ peerPc = "merge"
    /\ CASE peerLocal.kind = "none" ->
              /\ peerLocal' = Obj("tar", 0, <<NewMember(PeerArtifact, PeerName)>>)
              /\ peerPc' = "upload"
              /\ UNCHANGED peerResult
         [] peerLocal.kind = "tar" ->
              /\ peerLocal' = Obj("tar", 0,
                                  RebuiltMembers(peerLocal.entries, PeerArtifact, PeerName))
              /\ peerPc' = "upload"
              /\ UNCHANGED peerResult
         [] OTHER ->
              /\ PeerRaise
              /\ UNCHANGED peerLocal
    /\ UNCHANGED <<peerFailed, overlap, remote>>
    /\ UNCHANGED main_vars

\* upload_file, lines 150-156: whether the single put is reached.
SinglePutReached ==
    \/ NameResolves("datetime") /\ NameResolves("timezone")
    \/ Position(SinglePutOrder, "call") < Position(SinglePutOrder, "client_modified")

\* upload_file, lines 158-173: the calls of a session upload of `size`
\* bytes in which no call raises ApiError: the start call, and the loop's
\* calls if CommitInfo could be built.
SessionCalls(size) ==
    <<Call("start", Min(CHUNK_SIZE, size), 0, NoCommit)>>
    \o (IF NameResolves("datetime") /\ NameResolves("timezone")
        THEN SessionLoop(Min(CHUNK_SIZE, size), size, Min(CHUNK_SIZE, size))
        ELSE <<>>)

\* upload_file and main's check of its result in the other run.  The
\* remote object is replaced by a successful put or finish call.
PeerUpload ==
    /\ peerPc = "upload"
    /\ peerPc' = "ended"
    /\ LET size == ObjSize(peerLocal)
           nameOk == NameResolves("datetime") /\ NameResolves("timezone")
           made == IF size <= CHUNK_SIZE
                   THEN IF SinglePutReached
                        THEN <<Call("put", size, 0, OverwriteCommit)>> ELSE <<>>
                   ELSE SessionCalls(size) IN
         \E k \in 0..Len(made) :
            /\ peerFailed' = (peerFailed \/ k < Len(made))
            /\ remote' = IF k > 0 /\ made[k].op \in {"put", "finish"}
                         THEN peerLocal ELSE remote
            /\ peerResult' = ExitCode(k = Len(made) /\ nameOk)
    /\ UNCHANGED <<peerLocal, overlap>>
    /\ UNCHANGED main_vars

NextConcurrent ==
    \/ Next
    \/ PeerStart
    \/ PeerDownload
    \/ PeerMerge
    \/ PeerUpload

SpecConcurrent == Init /\ [][NextConcurrent]_vars

\* ------------------------------------------------------------- claims
\* The local master right after update_master_file returned.
MergedMaster == fs[MASTER_NAME].obj

MergeReturned == pc = "upload" /\ mergeIn.kind \in {"existing", "absent"}

CountName(es, n) == Cardinality({i \in 1..Len(es) : es[i].name = n})

NamesOf(es) == {es[i].name : i \in 1..Len(es)}

UniqueNames(es) == \A i, j \in 1..Len(es) : es[i].name = es[j].name => i = j

NameContent(es) == [i \in 1..Len(es) |-> <<es[i].name, es[i].content>>]

C2_AnyMasterUniqueAfterMerge ==
    MergeReturned => UniqueNames(MergedMaster.entries)

\* C2 amended: the merged master has exactly one member of the new
\* entry's name and as many members of every other name as the existing
\* master had; so it has at most one member per name whenever the
\* existing master had.
C2_MergePreservesUniqueness ==
    MergeReturned =>
        /\ CountName(MergedMaster.entries, mergeIn.name) = 1
        /\ \A m \in (NamesOf(mergeIn.existing) \cup NamesOf(MergedMaster.entries))
                     \ {mergeIn.name} :
              CountName(MergedMaster.entries, m) = CountName(mergeIn.existing, m)
        /\ (UniqueNames(mergeIn.existing) => UniqueNames(MergedMaster.entries))

\* A merge into a master that held the new entry's name twice.
C2_Witness ==
    /\ MergeReturned
    /\ CountName(mergeIn.existing, mergeIn.name) = 2
    /\ UniqueNames(MergedMaster.entries)

\* C3: a run that found an artifact and in which no external operation
\* failed ends Done: main returns 0 and the remote object is the merged
\* master.
C3_CleanRunEndsDone ==
    (pc = "ended" /\ runs > 0 /\ ~extFailed /\ mergeIn.out # <<>>) =>
        /\ result = 0
        /\ remote = MergedMaster

\* C4: a run that ends Failed leaves the remote object as it was when the
\* run started, and the remote object changes only in a step that makes a
\* successful single put or session finish.
C4_FailedRunLeavesRemote ==
    [][/\ (pc' = "ended" /\ result' = 1) => remote' = remoteAtStart'
       /\ remote' # remote =>
             /\ Len(calls') > Len(calls)
             /\ calls'[Len(calls')].op \in {"put", "finish"}]_vars

\* A failed run that had reached the upload and made a call.
C4_Witness ==
    /\ pc = "ended" /\ result = 1
    /\ calls # <<>>
    /\ mergeIn.out # remoteAtStart.entries

\* C5: a run whose fetch reported NotFound merges into an absent archive:
\* the master it produces holds exactly the new artifact.
C5_NotFoundGivesSingleEntry ==
    (MergeReturned /\ fetched = "notfound") =>
        MergedMaster.entries = <<NewMember(mergeIn.file, mergeIn.name)>>

\* C6: merging (n, c) into the result of merging (n, c) gives the same
\* members in the same order with the same content, and the same count.
C6_MergeIdempotent ==
    (/\ MergeReturned /\ mergeIn.kind = "existing"
     /\ prevMerge.kind # "none"
     /\ mergeIn.existing = prevMerge.out
     /\ mergeIn.name = prevMerge.name
     /\ mergeIn.file.obj.id = prevMerge.file.obj.id) =>
        /\ Len(MergedMaster.entries) = Len(prevMerge.out)
        /\ NameContent(MergedMaster.entries) = NameContent(prevMerge.out)

\* The same artifact merged a second time into a master of two members.
C6_Witness ==
    /\ MergeReturned /\ mergeIn.kind = "existing"
    /\ prevMerge.kind = "existing"
    /\ mergeIn.existing = prevMerge.out
    /\ mergeIn.name = prevMerge.name
    /\ mergeIn.file.obj.id = prevMerge.file.obj.id
    /\ Len(prevMerge.out) >= 2

\* upload_file has returned and no Dropbox call of it raised.
UploadReturned == pc = "check" /\ ~extFailed

CountOp(cs, op) == Cardinality({i \in 1..Len(cs) : cs[i].op = op})

\* C7: in an upload of more than CHUNK_SIZE bytes the chunks passed to
\* start, the appends and finish add up to the file's size.
C7_SessionChunksSumToSize ==
    (UploadReturned /\ file_size > CHUNK_SIZE) => SumLen(calls) = file_size

\* C8: in an upload of more than CHUNK_SIZE bytes the number of append
\* calls is floor((totalSize - chunkSize) / chunkSize).
C8_AppendCount ==
    (UploadReturned /\ file_size > CHUNK_SIZE) =>
        CountOp(calls, "append") = (file_size - CHUNK_SIZE) \div CHUNK_SIZE

\* C9: a file of at most CHUNK_SIZE bytes is sent by exactly one
\* overwriting put and no session call; a larger one by session calls and
\* no put.
C9_PathChosenBySize ==
    UploadReturned =>
        IF file_size <= CHUNK_SIZE
        THEN calls = <<Call("put", file_size, 0, OverwriteCommit)>>
        ELSE /\ calls # <<>>
             /\ \A i \in 1..Len(calls) : calls[i].op \in {"start", "append", "finish"}

StageOrder == <<"resolve", "fetch", "merge", "upload">>

IsPrefix(a, b) == Len(a) <= Len(b) /\ SubSeq(b, 1, Len(a)) = a

RunEnded == pc = "ended" /\ runs > 0

\* The stage an exception was raised in.
FailedStage ==
    CASE failure = "source" -> "resolve"
      [] failure \in {"fetch", "fetch_write"} -> "fetch"
      [] failure = "merge" -> "merge"
      [] failure = "upload" -> "upload"
      [] OTHER -> "none"

\* C11: a run that fails because no input artifact is found has made no
\* remote call: no identity probe, no download, no upload call.
C11_MissingArtifactNoRemoteCall ==
    (RunEnded /\ failure = "source") => (remoteCalls = <<>> /\ calls = <<>>)

\* C12: the canonical local master path never holds a partially written
\* archive.
C12_NoPartialMaster == fs[MASTER_NAME].obj.kind # "partial"

\* C13: when a run has ended, the temporary rebuild file and the local
\* copy of the master archive are gone.
C13_ScratchRemovedAtEnd ==
    RunEnded => (~Exists(TMP_PATH) /\ ~Exists(MASTER_NAME))

\* C14: the stages start in the order resolve, fetch, merge, upload; an
\* exception in a stage ends the run with exit code 1 and no later stage
\* started; no upload call follows a failed fetch or merge; upload_file
\* returning False gives exit code 1.
C14_StagesInOrderFailureEndsRun ==
    /\ IsPrefix(stages, StageOrder)
    /\ (RunEnded /\ failure # "none") =>
          /\ result = 1
          /\ IF FailedStage = "none" THEN stages = <<>>
             ELSE stages # <<>> /\ stages[Len(stages)] = FailedStage
    /\ (RunEnded /\ FailedStage \in {"resolve", "fetch", "merge"}) => calls = <<>>
    /\ (RunEnded /\ Len(stages) = 4 /\ ~success) => result = 1

\* A run whose fetch reported NotFound and whose merge then failed.
C14_Witness ==
    /\ RunEnded /\ failure = "merge" /\ fetched = "notfound"
    /\ stages = <<"resolve", "fetch", "merge">>
    /\ result = 1

C17_SessionCallOrder ==
    (UploadReturned /\ file_size > CHUNK_SIZE) =>
        /\ Len(calls) >= 2
        /\ calls[1].op = "start"
        /\ calls[Len(calls)].op = "finish"
        /\ calls[Len(calls)].commit = OverwriteCommit
        /\ \A i \in 2..(Len(calls) - 1) : calls[i].op = "append"

\* find_latest_archive has returned a path in the current run.
ArtifactSelected == stages # <<>> /\ failure # "source" /\ pc # "find"

\* C18: the selected artifact is never the master: neither its path nor
\* its entry name after the ".tar.gz" -> ".tgz" conversion is the master's
\* name, and the master's path never holds the artifact.
C18_ArtifactIsNeverMaster ==
    ArtifactSelected =>
        /\ archive_file # MASTER_NAME
        /\ make_arcname(archive_file) # MASTER_NAME
        /\ fs[MASTER_NAME].obj.kind # "blob"

HasEntry(obj, e) == \E i \in 1..Len(obj.entries) : obj.entries[i] = e

\* C16: two runs that both fetch the master before either uploads, in
\* which no external operation fails and whose artifacts are new to the
\* master, both end Done, and the remote master then lacks the artifact
\* of one of them.
C16_ConcurrentRunsLoseUpdate ==
    (/\ RunEnded /\ runs = 1 /\ peerPc = "ended"
     /\ overlap /\ ~extFailed /\ ~peerFailed
     /\ mergeIn.out # <<>>
     /\ ~HasEntry(remoteAtStart, NewMember(mergeIn.file, mergeIn.name))
     /\ peerLocal.kind = "tar" /\ CountName(peerLocal.entries, PeerName) = 1) =>
        /\ result = 0
        /\ peerResult = 0
        /\ \/ ~HasEntry(remote, NewMember(mergeIn.file, mergeIn.name))
           \/ ~HasEntry(remote, NewMember(PeerArtifact, PeerName))

====
